---- MODULE Spec2Model ----
(***************************************************************************)
(* Model of gin-scheduler-json (src/main.go): the Scheduler registry, its  *)
(* HTTP handlers, the per-task execution loop (runTask), the snapshot      *)
(* writer (atomicWriteJSON) and the startup restore (loadFromDisk).        *)
(*                                                                         *)
(* Strings are kept as strings; the string functions the code applies      *)
(* (TrimSpace, ToUpper, the "required"/"url" binding checks) are tables    *)
(* over the strings the model feeds in.  Task ids are token sequences:     *)
(* nextID formats <<timestamp, random, counter>> or, when the random       *)
(* source fails, <<timestamp, counter>>; the timestamp and the random      *)
(* part are fixed-width, so the token sequence determines the string.     *)
(* created_at / updated_at / startedAt carry no behaviour and are left     *)
(* out of the records.                                                     *)
(***************************************************************************)
EXTENDS Integers, Sequences, FiniteSets, TLC

\* ------------------------------------------------------------------ bounds
NumWorkers == 2      \* concurrent HTTP request goroutines
MaxObjs    == 2      \* Task objects allocated per process run
MaxRuns    == 1      \* successful executions counted per task (caps runCount)
MaxFaults  == 1      \* failing system calls (files, random source), over all runs
MaxCrashes == 1      \* process restarts
MaxCalls   == 2      \* requests that reach the Scheduler, over all runs

Workers == 1..NumWorkers

\* ------------------------------------------------------- program constants
DefaultPort  == 9000
MinInterval  == 1
MaxInterval  == 86400
MaxDescLen   == 200

\* ------------------------------------------------------------- strings
\* strings.TrimSpace on the strings the model uses
TrimSpace(s) ==
    CASE s = " get " -> "get"
      [] s = " d "   -> "d"
      [] s = " "     -> ""
      [] OTHER       -> s

\* strings.ToUpper on the strings the model uses
ToUpper(s) ==
    CASE s = "get"  -> "GET"
      [] s = "post" -> "POST"
      [] s = " get " -> " GET "
      [] OTHER      -> s

\* length in bytes of the description strings the model uses
StrLen(s) ==
    CASE s = ""     -> 0
      [] s = " "    -> 1
      [] s = "d"    -> 1
      [] s = " d "  -> 3
      [] s = "long" -> 201
      [] OTHER      -> 8

\* validator tag "url": an absolute URL with a scheme
IsURL(s) == s \in {"http://a", "http://b"}

\* ------------------------------------------------------------- task ids
RECURSIVE IdLess(_, _)
\* out.Tasks[i].ID < out.Tasks[j].ID, token by token, a proper prefix first
IdLess(a, b) ==
    IF a = <<>> THEN b # <<>>
    ELSE IF b = <<>> THEN FALSE
    ELSE IF Head(a) # Head(b) THEN Head(a) < Head(b)
    ELSE IdLess(Tail(a), Tail(b))

\* rand.Read outcomes: a byte pair, or failure
RandFail == -1
RandOutcomes == {0, RandFail}

\* (mutation: the counter is left out of the id)
FormatIDNoCounter(now, r, n) == IF r = RandFail THEN <<now>> ELSE <<now, r>>

\* fmt.Sprintf("%s-%02x%02x-%d", now, r[0], r[1], n) / fmt.Sprintf("%s-%d", now, n)
FormatID(now, r, n) == IF r = RandFail THEN <<now, n>> ELSE <<now, r, n>>

\* an id no task ever has (a request for an unknown task)
UnknownID == <<0>>

\* ------------------------------------------------------- requests, files
\* AddTaskReq bodies sent to POST /tasks/add
Req(i, u, m, d) == [interval |-> i, url |-> u, method |-> m, description |-> d]
NoReq == Req(0, "", "", "")
GoodReqs == { Req(2, "http://b", " get ", " d ") }
BadBindReqs ==
    { Req(0, "http://a", "GET", "d"),        \* interval missing / below min
      Req(86401, "http://a", "GET", "d"),    \* interval above max
      Req(1, "", "GET", "d"),                \* url missing
      Req(1, "a", "GET", "d"),               \* url without scheme
      Req(1, "http://a", "", "d"),           \* method missing
      Req(1, "http://a", "GET", ""),         \* description missing
      Req(1, "http://a", "GET", "long") }    \* description too long
BadMethodReqs == { Req(1, "http://a", "DELETE", "d") }
Requests == GoodReqs \cup BadBindReqs \cup BadMethodReqs

\* persistedTask (created_at / updated_at left out)
PT(id, i, u, m, d, e) ==
    [id |-> id, interval |-> i, url |-> u, method |-> m, description |-> d, enabled |-> e]

\* a file of the file system: absent, or a byte content that is either one
\* complete JSON document (persistedFile) or not (empty, truncated, garbage)
NoFile == [exists |-> FALSE, complete |-> FALSE, port |-> 0, tasks |-> <<>>]
Doc(port, ts) == [exists |-> TRUE, complete |-> TRUE, port |-> port, tasks |-> ts]
Partial == [exists |-> TRUE, complete |-> FALSE, port |-> 0, tasks |-> <<>>]

\* config.json as found by the first process run: none, an unparsable one, and
\* well-formed ones written by an earlier run (timestamp 0) or edited by hand
OldA == <<0, 0, 1>>
OldB == <<0, 0, 2>>
FileRunning == Doc(8080, << PT(OldA, 1, "http://a", "post", "d", TRUE),
                            PT(OldB, 1, "http://a", "DELETE", "d", TRUE) >>)
FilePaused  == Doc(0,    << PT(OldA, 1, "http://a", "GET", "d", FALSE),
                            PT(OldB, 0, "http://a", "GET", "d", TRUE) >>)
FileBlank   == Doc(9000, << PT(OldA, 2, " ", "GET", "d", TRUE),
                            PT(OldB, 1, "http://b", " get ", "", TRUE) >>)
FileTwice   == Doc(9000, << PT(OldA, 1, "http://a", "GET", "d", TRUE),
                            PT(OldA, 1, "http://b", "GET", "d", FALSE) >>)
FileSame    == Doc(9000, << PT(OldA, 1, "http://a", "GET", "d", TRUE),
                            PT(OldA, 1, "http://a", "GET", "d", TRUE) >>)
InitFiles == { NoFile, Partial, FileRunning, FilePaused, FileBlank, FileTwice,
               FileSame }

\* ------------------------------------------------------------------ state
VARIABLES
    fs,        \* the files: fs.cfg is config.json, fs.tmp is config.json.tmp
    tasks,     \* Scheduler.tasks: id -> address of the *Task
    heap,      \* the Task objects of this process run, by address
    ctx,       \* per Task object: its context has been cancelled (ctx.Done closed)
    loop,      \* per Task object: where its runTask goroutine is
    idSeq,     \* Scheduler.idSeq
    port,      \* Scheduler.port
    clock,     \* time.Now()
    lock,      \* Scheduler.mu held exclusively by this request goroutine (0: free)
    wr,        \* the atomicWriteJSON call in progress
    call,      \* per request goroutine: the handler it runs and where it is
    resp,      \* the response the step just taken has sent, and by which goroutine
    phase,     \* main(): "boot" before loadFromDisk, "serve" once r.Run listens
    crashes,   \* process restarts so far
    faults,    \* system calls that have failed so far
    calls,     \* requests that have reached the Scheduler so far
    pre,       \* history: the registry and config.json as the holder of the lock
               \* found them when it took the lock
    issued,    \* history: the ids nextID has returned in this process run
    acked      \* history: the ids a PauseTask has returned true for, less those
               \* a RemoveTask has returned true for since (kept over restarts)

vars == <<fs, tasks, heap, ctx, loop, idSeq, port, clock, lock, wr, call, resp,
          phase, crashes, faults, calls, pre, issued, acked>>

\* Task{...}; cancel is TRUE when t.cancel is non-nil (it always cancels the
\* context of the object's own loop)
Task(id, i, u, m, d, paused) ==
    [id |-> id, interval |-> i, url |-> u, method |-> m, description |-> d,
     paused |-> paused, cancel |-> FALSE, runCount |-> 0]

\* a Task object nothing refers to any more (not the map, not a live runTask):
\* the garbage collector has reclaimed it, its fields are gone
Freed == Task(<<>>, 0, "", "", "", TRUE)
Collect(hp, ts, lp) ==
    [a \in DOMAIN hp |->
        IF (\A id \in DOMAIN ts : ts[id] # a) /\ lp[a] \in {"none", "stopped"}
        THEN Freed ELSE hp[a]]

\* map operations on Scheduler.tasks
MapPut(m, k, v) == [x \in (DOMAIN m) \cup {k} |-> IF x = k THEN v ELSE m[x]]
MapDel(m, k) == [x \in (DOMAIN m) \ {k} |-> m[x]]

\* runTask of a Task object: "none" (never started), "start" (go statement
\* executed, not yet running), "exec" (inside executeOnce), "select" (blocked
\* in the select), "stopped" (returned)
NoLoop == "none"
NewLoop == "start"

\* seen: the value of t.paused when GET /tasks/:id looked the task up
Call(pc, id, req) == [pc |-> pc, id |-> id, req |-> req, seen |-> FALSE]
Idle == Call("idle", <<>>, NoReq)
\* a response: the handler, the status code, the "id" of the body or the text
\* of its "error", and the task views of the body of a GET
Resp(w, op, status, id, error) ==
    [w |-> w, op |-> op, status |-> status, id |-> id, error |-> error,
     body |-> <<>>]
NoResp == Resp(0, "none", 0, <<>>, "")

WrIdle == [pc |-> "idle", data |-> NoFile, err |-> FALSE]

\* the registry as a reader holding the lock sees it: for each id the Task
\* object and its fields (runCount apart, which the loops update on their own)
View(ts, hp) ==
    [id \in DOMAIN ts |-> [a |-> ts[id], t |-> [hp[ts[id]] EXCEPT !.runCount = 0]]]
Pre == [held |-> TRUE, reg |-> View(tasks, heap), cfg |-> fs.cfg]
NoPre == [held |-> FALSE, reg |-> <<>>, cfg |-> NoFile]

\* ------------------------------------------------------------ persistence
RECURSIVE SortByID(_)
\* sort.Slice(out.Tasks, by ID) on records with distinct ids
SortByID(S) ==
    IF S = {} THEN <<>>
    ELSE LET m == CHOOSE x \in S : \A y \in S \ {x} : ~IdLess(y.id, x.id)
         IN  <<m>> \o SortByID(S \ {m})

\* the persistedTask saveToDiskLocked builds from a Task
Persisted(t) == PT(t.id, t.interval, t.url, t.method, t.description, ~t.paused)

\* the persistedFile saveToDiskLocked hands to atomicWriteJSON
Snapshot(ts, hp, pt) ==
    Doc(pt, SortByID({ Persisted(hp[ts[id]]) : id \in DOMAIN ts }))

\* one iteration of the restore loop of loadFromDisk on the registry st
RestoreOne(st, pt) ==
    LET method == ToUpper(TrimSpace(pt.method)) IN
    IF method # "GET" /\ method # "POST" THEN st
    ELSE IF pt.interval < MinInterval \/ TrimSpace(pt.url) = "" THEN st
    ELSE LET a == Len(st.heap) + 1
             t == [Task(pt.id, pt.interval, pt.url, method, pt.description, ~pt.enabled)
                     EXCEPT !.cancel = pt.enabled]
         IN  [heap  |-> Append(st.heap, t),
              tasks |-> MapPut(st.tasks, pt.id, a),
              ctx   |-> Append(st.ctx, ~pt.enabled),
              loop  |-> Append(st.loop, IF pt.enabled THEN NewLoop ELSE NoLoop)]

RECURSIVE RestoreAbortsOnInvalid(_, _)
\* (mutation: the first invalid entry ends the restore)
RestoreAbortsOnInvalid(st, pts) ==
    IF pts = <<>> THEN st
    ELSE IF RestoreOne(st, Head(pts)) = st THEN st
    ELSE RestoreAbortsOnInvalid(RestoreOne(st, Head(pts)), Tail(pts))

RECURSIVE Restore(_, _)
\* for _, pt := range pf.Tasks { ... }
Restore(st, pts) ==
    IF pts = <<>> THEN st ELSE Restore(RestoreOne(st, Head(pts)), Tail(pts))

EmptyRegistry == [heap |-> <<>>, tasks |-> <<>>, ctx |-> <<>>, loop |-> <<>>]

\* ------------------------------------------------------------------- Init
Init ==
    /\ fs \in { [cfg |-> f, tmp |-> NoFile] : f \in InitFiles }
    /\ tasks = <<>>
    /\ heap = <<>>
    /\ ctx = <<>>
    /\ loop = <<>>
    /\ idSeq = 0
    /\ port = DefaultPort
    /\ clock = 1
    /\ lock = 0
    /\ wr = WrIdle
    /\ call = [w \in Workers |-> Idle]
    /\ resp = NoResp
    /\ phase = "boot"
    /\ crashes = 0
    /\ faults = 0
    /\ calls = 0
    /\ pre = NoPre
    /\ issued = <<>>
    /\ acked = {}

\* ------------------------------------------------------- atomicWriteJSON
\* the call is entered with the value to encode
WriteBegin(v) == [pc |-> "open", data |-> v, err |-> FALSE]

\* a file-system call returns an error: atomicWriteJSON returns it
WriteFails ==
    /\ faults < MaxFaults
    /\ faults' = faults + 1
    /\ wr' = [wr EXCEPT !.pc = "done", !.err = TRUE]
    /\ UNCHANGED fs

\* (mutation: the document is written straight to the target path)
TmpPathIsTarget == "cfg"

\* the path os.OpenFile creates and truncates: path + ".tmp"
TmpPath == "tmp"

\* os.OpenFile(tmp, O_CREATE|O_WRONLY|O_TRUNC)
WOpen ==
    /\ wr.pc = "open"
    /\ \/ /\ fs' = [fs EXCEPT ![TmpPath] = Partial]
          /\ wr' = [wr EXCEPT !.pc = "encode"]
          /\ UNCHANGED faults
       \/ WriteFails
    /\ resp' = NoResp
    /\ UNCHANGED <<tasks, heap, ctx, loop, idSeq, port, clock, lock, call, phase,
                   crashes, calls, pre, issued, acked>>

\* enc.Encode(v): the whole document in one write; when it fails the file
\* stays short of a complete document
WEncode ==
    /\ wr.pc = "encode"
    /\ \/ /\ fs' = [fs EXCEPT ![TmpPath] = wr.data]
          /\ wr' = [wr EXCEPT !.pc = "sync"]
          /\ UNCHANGED faults
       \/ WriteFails
    /\ resp' = NoResp
    /\ UNCHANGED <<tasks, heap, ctx, loop, idSeq, port, clock, lock, call, phase,
                   crashes, calls, pre, issued, acked>>

\* f.Sync()
WSync ==
    /\ wr.pc = "sync"
    /\ \/ /\ wr' = [wr EXCEPT !.pc = "close"]
          /\ UNCHANGED <<fs, faults, calls>>
       \/ WriteFails
    /\ resp' = NoResp
    /\ UNCHANGED <<tasks, heap, ctx, loop, idSeq, port, clock, lock, call, phase,
                   crashes, calls, pre, issued, acked>>

\* f.Close()
WClose ==
    /\ wr.pc = "close"
    /\ \/ /\ wr' = [wr EXCEPT !.pc = "rename"]
          /\ UNCHANGED <<fs, faults, calls>>
       \/ WriteFails
    /\ resp' = NoResp
    /\ UNCHANGED <<tasks, heap, ctx, loop, idSeq, port, clock, lock, call, phase,
                   crashes, calls, pre, issued, acked>>

\* os.Rename(tmp, path)
WRename ==
    /\ wr.pc = "rename"
    /\ \/ /\ fs' = [cfg |-> fs[TmpPath], tmp |-> NoFile]
          /\ wr' = [wr EXCEPT !.pc = "done"]
          /\ UNCHANGED faults
       \/ WriteFails
    /\ resp' = NoResp
    /\ UNCHANGED <<tasks, heap, ctx, loop, idSeq, port, clock, lock, call, phase,
                   crashes, calls, pre, issued, acked>>

\* ------------------------------------------------------------ loadFromDisk
\* config.json does not exist: write the default one
LoadCreate ==
    /\ phase = "boot"
    /\ ~fs.cfg.exists
    /\ wr' = WriteBegin(Doc(port, <<>>))
    /\ phase' = "boot_save"
    /\ UNCHANGED <<fs, tasks, heap, ctx, loop, idSeq, port, clock, lock, call,
                   crashes, faults, calls, pre, issued, acked>>
    /\ resp' = NoResp

\* atomicWriteJSON of the default file has returned; main logs an error, if any
LoadCreateDone ==
    /\ phase = "boot_save"
    /\ wr.pc = "done"
    /\ wr' = WrIdle
    /\ phase' = "serve"
    /\ UNCHANGED <<fs, tasks, heap, ctx, loop, idSeq, port, clock, lock, call,
                   crashes, faults, calls, pre, issued, acked>>
    /\ resp' = NoResp

\* os.Open fails: main logs the error and serves an empty registry
LoadOpenError ==
    /\ phase = "boot"
    /\ fs.cfg.exists
    /\ faults < MaxFaults
    /\ faults' = faults + 1
    /\ phase' = "serve"
    /\ resp' = NoResp
    /\ UNCHANGED <<fs, tasks, heap, ctx, loop, idSeq, port, clock, lock, wr, call,
                   crashes, calls, pre, issued, acked>>

\* the content is no JSON document: main logs "invalid config.json" and serves
\* an empty registry
LoadDecodeError ==
    /\ phase = "boot"
    /\ fs.cfg.exists
    /\ ~fs.cfg.complete
    /\ phase' = "serve"
    /\ resp' = NoResp
    /\ UNCHANGED <<fs, tasks, heap, ctx, loop, idSeq, port, clock, lock, wr, call,
                   crashes, faults, calls, pre, issued, acked>>

\* the file decodes: take its port, restore its tasks
LoadRestore ==
    /\ phase = "boot"
    /\ fs.cfg.exists
    /\ fs.cfg.complete
    /\ port' = IF fs.cfg.port > 0 THEN fs.cfg.port ELSE port
    /\ LET st == Restore(EmptyRegistry, fs.cfg.tasks)
       IN  /\ heap' = Collect(st.heap, st.tasks, st.loop)
           /\ tasks' = st.tasks
           /\ ctx' = st.ctx
           /\ loop' = st.loop
    /\ phase' = "serve"
    /\ UNCHANGED <<fs, idSeq, clock, lock, wr, call, crashes, faults, calls, pre,
                   issued, acked>>
    /\ resp' = NoResp

\* ---------------------------------------------------------- POST /tasks/add
\* c.ShouldBindJSON(&req): the binding tags of AddTaskReq
Bind(req) ==
    /\ req.interval # 0 /\ req.interval >= MinInterval /\ req.interval <= MaxInterval
    /\ req.url # "" /\ IsURL(req.url)
    /\ req.method # ""
    /\ req.description # "" /\ StrLen(req.description) >= 1
                           /\ StrLen(req.description) <= MaxDescLen

\* the checks AddTask makes before it takes an id
AddValid(req) ==
    LET method == ToUpper(TrimSpace(req.method)) IN
    /\ method = "GET" \/ method = "POST"
    /\ req.interval >= MinInterval

\* the error AddTask returns for a request it does not accept
AddError(req) ==
    LET method == ToUpper(TrimSpace(req.method)) IN
    IF method # "GET" /\ method # "POST" THEN "method must be GET or POST"
    ELSE "interval_seconds must be >= 1"

\* Scheduler.nextID with the counter value n it has just drawn
NextID(now, r, n) == FormatID(now, r, n)

\* s.mu: Lock() is granted when no goroutine holds the lock in either form,
\* RLock() when none holds it exclusively.  GET /tasks holds the shared form
\* from its first line to its return
Readers == { w \in Workers : call[w].pc = "list_read" }
CanLock == lock = 0 /\ Readers = {}

\* the server hands a request to a goroutine of its own; goroutines have no
\* identity, the model numbers them and uses the lowest free one
Free(w) ==
    /\ phase = "serve"
    /\ call[w].pc = "idle"
    /\ \A v \in Workers : v < w => call[v].pc # "idle"

\* the handler up to s.mu.Lock(): bind, validate, nextID
AddBegin(w, req) ==
    /\ Free(w)
    /\ IF ~Bind(req)
         THEN /\ resp' = Resp(w, "add", 400, <<>>, "binding")
              /\ UNCHANGED <<idSeq, call, faults, calls, issued>>
         ELSE IF ~AddValid(req)
         THEN /\ resp' = Resp(w, "add", 500, <<>>, AddError(req))
              /\ UNCHANGED <<idSeq, call, faults, calls, issued>>
         ELSE /\ Len(heap) + Cardinality({v \in Workers : call[v].pc = "add"}) < MaxObjs
              /\ calls < MaxCalls
              /\ calls' = calls + 1
              /\ idSeq' = idSeq + 1
              /\ \E r \in RandOutcomes :
                    /\ r = RandFail => faults < MaxFaults
                    /\ faults' = IF r = RandFail THEN faults + 1 ELSE faults
                    /\ call' = [call EXCEPT
                                  ![w] = Call("add", NextID(clock, r, idSeq + 1), req)]
                    /\ issued' = Append(issued, NextID(clock, r, idSeq + 1))
              /\ resp' = NoResp
    /\ UNCHANGED <<fs, tasks, heap, ctx, loop, port, clock, lock, wr, phase, crashes,
                   pre, acked>>

\* s.mu.Lock(); insert the Task; saveToDiskLocked builds the snapshot and
\* enters atomicWriteJSON
AddLock(w) ==
    /\ call[w].pc = "add"
    /\ CanLock
    /\ lock' = w
    /\ pre' = Pre
    /\ LET req == call[w].req
           t == Task(call[w].id, req.interval, req.url, ToUpper(TrimSpace(req.method)),
                     TrimSpace(req.description), FALSE)
       IN  /\ heap' = Append(heap, t)
           /\ tasks' = MapPut(tasks, call[w].id, Len(heap) + 1)
    /\ ctx' = Append(ctx, FALSE)
    /\ loop' = Append(loop, NoLoop)
    /\ wr' = WriteBegin(Snapshot(tasks', heap', port))
    /\ call' = [call EXCEPT ![w].pc = "add_save"]
    /\ UNCHANGED <<fs, idSeq, port, clock, phase, crashes, faults, calls, issued, acked>>
    /\ resp' = NoResp

\* (mutation: the entry is left in the map)
RollbackMissing(ts, id) == ts

\* delete(s.tasks, id) after a failed save
Rollback(ts, id) == MapDel(ts, id)

\* saveToDiskLocked has returned: roll back on error, else start the loop
AddDone(w) ==
    /\ call[w].pc = "add_save"
    /\ wr.pc = "done"
    /\ LET id == call[w].id
           a == tasks[id]
       IN  IF wr.err
           THEN /\ tasks' = Rollback(tasks, id)
                /\ heap' = Collect(heap, tasks', loop)
                /\ resp' = Resp(w, "add", 500, <<>>, "write failed")
                /\ UNCHANGED loop
           ELSE /\ heap' = [heap EXCEPT ![a].cancel = TRUE]
                /\ loop' = [loop EXCEPT ![a] = NewLoop]
                /\ resp' = Resp(w, "add", 200, id, "")
                /\ UNCHANGED tasks
    /\ wr' = WrIdle
    /\ lock' = 0
    /\ pre' = NoPre
    /\ call' = [call EXCEPT ![w] = Idle]
    /\ UNCHANGED <<fs, ctx, idSeq, port, clock, phase, crashes, faults, calls,
                   issued, acked>>

\* ------------------------------------- POST /tasks/:id/pause, /tasks/:id/delete
\* a request for a task of the registry or for an unknown id arrives
Arrive(w, op, id) ==
    /\ Free(w)
    /\ id \in (DOMAIN tasks) \cup {UnknownID}
    /\ calls < MaxCalls
    /\ calls' = calls + 1
    /\ call' = [call EXCEPT ![w] = Call(op, id, NoReq)]
    /\ UNCHANGED <<fs, tasks, heap, ctx, loop, idSeq, port, clock, lock, wr, phase,
                   crashes, faults, pre, issued, acked>>
    /\ resp' = NoResp

PauseBegin(w, id) == Arrive(w, "pause", id)
RemoveBegin(w, id) == Arrive(w, "remove", id)

\* (mutation: the handle is kept)
CancelLoopKeepsHandle(hp, a) == hp

\* if t.cancel != nil { ...; t.cancel = nil }
CancelLoop(hp, a) == [hp EXCEPT ![a].cancel = FALSE]

\* (mutation: cancel() is not called)
SignalCtxNever(cx, hp, a) == cx

\* if t.cancel != nil { t.cancel(); ... }: the context of the loop is cancelled
SignalCtx(cx, hp, a) == IF hp[a].cancel THEN [cx EXCEPT ![a] = TRUE] ELSE cx

\* (mutation: the early return is missing)
NeverAlreadyPaused(t) == FALSE

\* PauseTask returns at once for a task that is already paused
AlreadyPaused(t) == t.paused

\* t.paused = true
MarkPaused(hp, a) == [hp EXCEPT ![a].paused = TRUE]

\* PauseTask up to the return, or up to the entry of atomicWriteJSON
PauseTask(w) ==
    /\ call[w].pc = "pause"
    /\ CanLock
    /\ LET id == call[w].id IN
       IF id \notin DOMAIN tasks
       THEN /\ resp' = Resp(w, "pause", 404, id, "task not found")
            /\ call' = [call EXCEPT ![w] = Idle]
            /\ UNCHANGED <<heap, ctx, wr, lock, pre, acked>>
       ELSE IF AlreadyPaused(heap[tasks[id]])
       THEN /\ resp' = Resp(w, "pause", 200, id, "")
            /\ call' = [call EXCEPT ![w] = Idle]
            /\ acked' = acked \cup {id}
            /\ UNCHANGED <<heap, ctx, wr, lock, pre>>
       ELSE LET a == tasks[id] IN
            /\ ctx' = SignalCtx(ctx, heap, a)
            /\ heap' = MarkPaused(CancelLoop(heap, a), a)
            /\ wr' = WriteBegin(Snapshot(tasks, heap', port))
            /\ lock' = w
            /\ pre' = Pre
            /\ call' = [call EXCEPT ![w].pc = "pause_save"]
            /\ resp' = NoResp
            /\ UNCHANGED acked
    /\ UNCHANGED <<fs, tasks, loop, idSeq, port, clock, phase, crashes, faults,
                   calls, issued>>

\* _ = s.saveToDiskLocked(); return true
PauseDone(w) ==
    /\ call[w].pc = "pause_save"
    /\ wr.pc = "done"
    /\ resp' = Resp(w, "pause", 200, call[w].id, "")
    /\ wr' = WrIdle
    /\ lock' = 0
    /\ pre' = NoPre
    /\ acked' = acked \cup {call[w].id}
    /\ call' = [call EXCEPT ![w] = Idle]
    /\ UNCHANGED <<fs, tasks, heap, ctx, loop, idSeq, port, clock, phase, crashes,
                   faults, calls, issued>>

\* RemoveTask up to the return, or up to the entry of atomicWriteJSON
RemoveTask(w) ==
    /\ call[w].pc = "remove"
    /\ CanLock
    /\ LET id == call[w].id IN
       IF id \notin DOMAIN tasks
       THEN /\ resp' = Resp(w, "remove", 404, id, "task not found")
            /\ call' = [call EXCEPT ![w] = Idle]
            /\ UNCHANGED <<tasks, heap, ctx, wr, lock, pre>>
       ELSE LET a == tasks[id] IN
            /\ ctx' = SignalCtx(ctx, heap, a)
            /\ tasks' = MapDel(tasks, id)
            /\ heap' = Collect(CancelLoop(heap, a), tasks', loop)
            /\ wr' = WriteBegin(Snapshot(tasks', heap', port))
            /\ lock' = w
            /\ pre' = Pre
            /\ call' = [call EXCEPT ![w].pc = "remove_save"]
            /\ resp' = NoResp
    /\ UNCHANGED <<fs, loop, idSeq, port, clock, phase, crashes, faults, calls,
                   issued, acked>>

\* _ = s.saveToDiskLocked(); return true
RemoveDone(w) ==
    /\ call[w].pc = "remove_save"
    /\ wr.pc = "done"
    /\ resp' = Resp(w, "remove", 200, call[w].id, "")
    /\ wr' = WrIdle
    /\ lock' = 0
    /\ pre' = NoPre
    /\ acked' = acked \ {call[w].id}
    /\ call' = [call EXCEPT ![w] = Idle]
    /\ UNCHANGED <<fs, tasks, heap, ctx, loop, idSeq, port, clock, phase, crashes,
                   faults, calls, issued>>

\* ------------------------------------------------------------------ runTask
Objs == 1..Len(heap)

\* the goroutine is scheduled and enters its first executeOnce
LoopStart(a) ==
    /\ loop[a] = "start"
    /\ loop' = [loop EXCEPT ![a] = "exec"]
    /\ resp' = NoResp
    /\ UNCHANGED <<fs, tasks, heap, ctx, idSeq, port, clock, lock, wr, call, phase,
                   crashes, faults, calls, pre, issued, acked>>

\* executeOnce returns: the call succeeded (runCount is incremented) or failed;
\* runTask goes (back) to its select
ExecDone(a, ok) ==
    /\ loop[a] = "exec"
    /\ heap' = IF ok THEN [heap EXCEPT ![a].runCount = @ + 1] ELSE heap
    /\ loop' = [loop EXCEPT ![a] = "select"]
    /\ resp' = NoResp
    /\ UNCHANGED <<fs, tasks, ctx, idSeq, port, clock, lock, wr, call, phase,
                   crashes, faults, calls, pre, issued, acked>>

\* (mutation: the select has no case for ctx.Done())
SelectCasesTickOnly(a) == {"tick"}

\* what the select of runTask may do next: ctx.Done() is ready once the
\* context is cancelled, ticker.C whenever the interval has elapsed since the
\* last tick (any time, as the model does not measure time); with both ready
\* the select picks either case
SelectCases(a) == (IF ctx[a] THEN {"done"} ELSE {}) \cup {"tick"}

\* case <-ticker.C: s.executeOnce(t)
LoopTick(a) ==
    /\ loop[a] = "select"
    /\ "tick" \in SelectCases(a)
    /\ heap[a].runCount < MaxRuns
    /\ loop' = [loop EXCEPT ![a] = "exec"]
    /\ resp' = NoResp
    /\ UNCHANGED <<fs, tasks, heap, ctx, idSeq, port, clock, lock, wr, call, phase,
                   crashes, faults, calls, pre, issued, acked>>

\* case <-ctx.Done(): return
LoopStop(a) ==
    /\ loop[a] = "select"
    /\ "done" \in SelectCases(a)
    /\ loop' = [loop EXCEPT ![a] = "stopped"]
    /\ heap' = Collect(heap, tasks, loop')
    /\ resp' = NoResp
    /\ UNCHANGED <<fs, tasks, ctx, idSeq, port, clock, lock, wr, call, phase,
                   crashes, faults, calls, pre, issued, acked>>

\* ------------------------------------------------------------- GET /tasks
\* (mutation: the status does not look at t.paused)
StatusAlwaysRunning(t) == "running"

\* status := "running"; if t.paused { status = "paused" }
Status(t) == IF t.paused THEN "paused" ELSE "running"

\* the view the handler builds of one Task
TaskView(t) ==
    [id |-> t.id, interval_seconds |-> t.interval, url |-> t.url,
     method |-> t.method, description |-> t.description, status |-> Status(t)]

\* the "tasks" array a GET /tasks answers with when it gets the read lock in
\* the current state: one view per entry of the map, sorted by id
ListTasks == SortByID({ TaskView(heap[tasks[id]]) : id \in DOMAIN tasks })

\* (mutation: the handlers read without the lock)
CanRLockAlways == TRUE

\* s.mu.RLock() is granted
CanRLock == lock = 0

\* a request uses up one of the requests the model lets reach the Scheduler
Reach(w) ==
    /\ Free(w)
    /\ calls < MaxCalls
    /\ calls' = calls + 1

\* GET /tasks: s.mu.RLock(); defer s.mu.RUnlock()
ListBegin(w) ==
    /\ Reach(w)
    /\ CanRLock
    /\ call' = [call EXCEPT ![w] = Call("list_read", <<>>, NoReq)]
    /\ resp' = NoResp
    /\ UNCHANGED <<fs, tasks, heap, ctx, loop, idSeq, port, clock, lock, wr, phase,
                   crashes, faults, pre, issued, acked>>

\* GET /tasks: the loop over s.tasks, the sort, the answer, RUnlock
ListDone(w) ==
    /\ call[w].pc = "list_read"
    /\ resp' = [Resp(w, "list", 200, <<>>, "") EXCEPT !.body = ListTasks]
    /\ call' = [call EXCEPT ![w] = Idle]
    /\ UNCHANGED <<fs, tasks, heap, ctx, loop, idSeq, port, clock, lock, wr, phase,
                   crashes, faults, calls, pre, issued, acked>>

\* (mutation: an id that is not in the map yields some task of the map)
LookupAny(ts, id) ==
    IF id \in DOMAIN ts THEN ts[id]
    ELSE IF DOMAIN ts = {} THEN 0 ELSE ts[CHOOSE k \in DOMAIN ts : TRUE]

\* t, ok := s.tasks[id]: the Task object, 0 for !ok
Lookup(ts, id) == IF id \in DOMAIN ts THEN ts[id] ELSE 0

\* GET /tasks/:id: id := c.Param("id")
GetBegin(w, id) == Arrive(w, "get", id)

\* GET /tasks/:id: RLock, the map lookup, RUnlock; 404 when !ok
GetLookup(w) ==
    /\ call[w].pc = "get"
    /\ CanRLock
    /\ LET a == Lookup(tasks, call[w].id) IN
       IF a = 0
       THEN /\ resp' = Resp(w, "get", 404, call[w].id, "task not found")
            /\ call' = [call EXCEPT ![w] = Idle]
       ELSE /\ call' = [call EXCEPT ![w] =
                          [Call("get_read", heap[a].id,
                                Req(heap[a].interval, heap[a].url, heap[a].method,
                                    heap[a].description))
                             EXCEPT !.seen = heap[a].paused]]
            /\ resp' = NoResp
    /\ UNCHANGED <<fs, tasks, heap, ctx, loop, idSeq, port, clock, lock, wr, phase,
                   crashes, faults, calls, pre, issued, acked>>

\* what the read of t.paused at line 366 may yield: the handler has released
\* the lock, so the read is ordered with no write of PauseTask: it yields the
\* value the flag has now (for a task that left the map, the one it had), or
\* still the value it had at the lookup
PausedRead(w) ==
    {call[w].seen} \cup
    (IF call[w].id \in DOMAIN tasks THEN {heap[tasks[call[w].id]].paused} ELSE {})

\* GET /tasks/:id after RUnlock: status from t.paused, the answer
GetRead(w) ==
    /\ call[w].pc = "get_read"
    /\ \E p \in PausedRead(w) :
          resp' = [Resp(w, "get", 200, call[w].id, "") EXCEPT !.body =
                     << [id |-> call[w].id,
                         interval_seconds |-> call[w].req.interval,
                         url |-> call[w].req.url,
                         method |-> call[w].req.method,
                         description |-> call[w].req.description,
                         status |-> Status([paused |-> p])] >>]
    /\ call' = [call EXCEPT ![w] = Idle]
    /\ UNCHANGED <<fs, tasks, heap, ctx, loop, idSeq, port, clock, lock, wr, phase,
                   crashes, faults, calls, pre, issued, acked>>

\* ------------------------------------------------------------------ process
\* the process dies at any point and is started again: memory is lost, the
\* files stay, NewScheduler builds a fresh Scheduler
Crash ==
    /\ crashes < MaxCrashes
    /\ crashes' = crashes + 1
    /\ clock' = clock + 1
    /\ tasks' = <<>>
    /\ heap' = <<>>
    /\ ctx' = <<>>
    /\ loop' = <<>>
    /\ idSeq' = 0
    /\ issued' = <<>>
    /\ port' = DefaultPort
    /\ lock' = 0
    /\ pre' = NoPre
    /\ wr' = WrIdle
    /\ call' = [w \in Workers |-> Idle]
    /\ resp' = NoResp
    /\ phase' = "boot"
    /\ UNCHANGED <<fs, faults, calls, acked>>

Next ==
    \/ WOpen \/ WEncode \/ WSync \/ WClose \/ WRename
    \/ LoadCreate \/ LoadCreateDone \/ LoadOpenError \/ LoadDecodeError \/ LoadRestore
    \/ \E w \in Workers : \E req \in Requests : AddBegin(w, req)
    \/ \E w \in Workers : AddLock(w)
    \/ \E w \in Workers : AddDone(w)
    \/ \E w \in Workers : \E id \in (DOMAIN tasks) \cup {UnknownID} : PauseBegin(w, id)
    \/ \E w \in Workers : \E id \in (DOMAIN tasks) \cup {UnknownID} : RemoveBegin(w, id)
    \/ \E w \in Workers : PauseTask(w)
    \/ \E w \in Workers : PauseDone(w)
    \/ \E w \in Workers : RemoveTask(w)
    \/ \E w \in Workers : RemoveDone(w)
    \/ \E w \in Workers : ListBegin(w)
    \/ \E w \in Workers : ListDone(w)
    \/ \E w \in Workers : \E id \in (DOMAIN tasks) \cup {UnknownID} : GetBegin(w, id)
    \/ \E w \in Workers : GetLookup(w)
    \/ \E w \in Workers : GetRead(w)
    \/ \E a \in Objs : LoopStart(a)
    \/ \E a \in Objs : \E ok \in BOOLEAN : ExecDone(a, ok)
    \/ \E a \in Objs : LoopTick(a)
    \/ \E a \in Objs : LoopStop(a)
    \/ Crash

Spec == Init /\ [][Next]_vars

\* The scheduling of a runTask goroutine: the Go scheduler runs a runnable
\* goroutine (weak fairness of its start); executeOnce returns, as the
\* http.Client has a 10 s timeout (weak fairness of its return); a select
\* with several ready cases picks one uniformly at random, so a case that is
\* ready every time the select is reached is taken in the end (strong
\* fairness of case <-ctx.Done()).
FairLoop(a) ==
    /\ WF_vars(a \in Objs /\ LoopStart(a))
    /\ WF_vars(a \in Objs /\ \E ok \in BOOLEAN : ExecDone(a, ok))
    /\ SF_vars(a \in Objs /\ LoopStop(a))

FairSpec == Spec /\ \A a \in 1..MaxObjs : FairLoop(a)

\* ================================================================ properties
\* what the properties speak about
MemRecords == { Persisted(heap[tasks[id]]) : id \in DOMAIN tasks }
FileRecords(f) == { f.tasks[i] : i \in 1..Len(f.tasks) }

\* the step is the return of the handler goroutine w runs
Returns(w) == call[w].pc # "idle" /\ call'[w].pc = "idle" /\ crashes' = crashes

\* the step starts the runTask goroutine of object a
Starts(a) == a \in DOMAIN loop' /\ loop'[a] # "none"
             /\ (a \in DOMAIN loop => loop[a] = "none")

\* -------------------------------------------------------------------- C1
\* the step is AddTask returning after its snapshot write has failed
AddRejected(w) == call[w].pc = "add_save" /\ wr.pc = "done" /\ wr.err /\ Returns(w)

\* C1: when the snapshot write inside AddTask fails, AddTask returns an error
\* (the handler answers 500), the registry is what it was when AddTask took
\* the lock, config.json is what it was then, and no runTask is started for
\* the rejected Task: a runTask only ever starts at startup restore or for
\* the Task of an AddTask that returns its id.
C1_AddAllOrNothing ==
    [][ /\ \A w \in Workers : AddRejected(w) =>
              /\ resp' = Resp(w, "add", 500, <<>>, "write failed")
              /\ View(tasks', heap') = pre.reg
              /\ fs'.cfg = pre.cfg
              /\ loop' = loop
              /\ loop[tasks[call[w].id]] = "none"
              /\ call[w].id \notin DOMAIN tasks'
        /\ \A a \in DOMAIN loop' : Starts(a) =>
              \/ phase = "boot"
              \/ /\ resp'.op = "add" /\ resp'.status = 200
                 /\ resp'.id \in DOMAIN tasks' /\ tasks'[resp'.id] = a
      ]_vars

\* an AddTask has just been rejected for a failed write while another task
\* stays registered
C1_Witness ==
    /\ resp.op = "add" /\ resp.status = 500 /\ resp.error = "write failed"
    /\ DOMAIN tasks # {}

\* -------------------------------------------------------------------- C2
\* the step just taken has answered a mutating request with success
Succeeded == resp.status = 200 /\ resp.op \in {"add", "pause", "remove"}

\* C2 (as claimed): immediately after every AddTask, PauseTask or RemoveTask
\* that returns success, config.json is a complete document whose set of
\* task records equals the records of the in-memory registry, snapshot writes
\* being allowed to fail.
C2_DiskEqualsMemory ==
    Succeeded =>
        /\ fs.cfg.exists /\ fs.cfg.complete
        /\ FileRecords(fs.cfg) = MemRecords

\* RemoveTask has just returned true for the restored task although its
\* snapshot write failed: config.json still holds the record of the task
C2_Witness ==
    /\ resp.op = "remove" /\ resp.status = 200 /\ resp.id = OldA
    /\ crashes = 0 /\ faults = 1
    /\ fs.cfg = FileRunning
    /\ OldA \notin DOMAIN tasks

\* -------------------------------------------------------------------- C3
\* the step is PauseTask (op "pause_save") or RemoveTask (op "remove_save")
\* of goroutine w returning after its snapshot write has failed
SaveIgnored(w, pc) == call[w].pc = pc /\ wr.pc = "done" /\ wr.err /\ Returns(w)

\* every entry but id is, in the step, what the holder of the lock found
OthersKept(id) ==
    \A k \in (DOMAIN pre.reg) \ {id} :
        k \in DOMAIN tasks' /\ View(tasks', heap')[k] = pre.reg[k]

\* C3: when the snapshot write inside RemoveTask or PauseTask fails, nothing
\* is rolled back: RemoveTask returns true, the entry is gone and the context
\* of its loop is cancelled; PauseTask returns true, the task is paused, has
\* no cancel handle and the context of its loop is cancelled; config.json is
\* what it was before the call.  Every snapshot write that succeeds (the
\* rename is done) leaves config.json with exactly the records of the
\* registry.
C3_NoRollbackOnPauseRemove ==
    [][ /\ \A w \in Workers : SaveIgnored(w, "remove_save") =>
              LET id == call[w].id IN
              /\ resp' = Resp(w, "remove", 200, id, "")
              /\ id \in DOMAIN pre.reg
              /\ DOMAIN tasks' = (DOMAIN pre.reg) \ {id}
              /\ OthersKept(id)
              /\ ctx'[pre.reg[id].a]
              /\ fs'.cfg = pre.cfg
        /\ \A w \in Workers : SaveIgnored(w, "pause_save") =>
              LET id == call[w].id IN
              /\ resp' = Resp(w, "pause", 200, id, "")
              /\ id \in DOMAIN pre.reg /\ ~pre.reg[id].t.paused
              /\ DOMAIN tasks' = DOMAIN pre.reg
              /\ OthersKept(id)
              /\ tasks'[id] = pre.reg[id].a
              /\ heap'[tasks'[id]].paused /\ ~heap'[tasks'[id]].cancel
              /\ ctx'[tasks'[id]]
              /\ fs'.cfg = pre.cfg
        /\ (wr.pc = "rename" /\ wr'.pc = "done" /\ ~wr'.err) =>
              /\ fs'.cfg.exists /\ fs'.cfg.complete
              /\ FileRecords(fs'.cfg) = MemRecords'
      ]_vars

\* the write of a RemoveTask failed (config.json kept the removed record),
\* and the AddTask that came next has written its snapshot: config.json
\* holds the records of the registry again
C3_Witness ==
    /\ resp.op = "add" /\ resp.status = 200 /\ Len(resp.id) = 3
    /\ crashes = 0 /\ faults = 1
    /\ fs.cfg.exists /\ fs.cfg.complete /\ fs.cfg.port = 8080
    /\ OldA \notin DOMAIN tasks
    /\ FileRecords(fs.cfg) = MemRecords

\* -------------------------------------------------------------------- C4
\* C4 (as claimed): once the cancellation of a task's loop has been
\* signalled, no executeOnce of that loop starts any more (one that is in
\* flight may finish), whatever the interleaving with the loop's start and
\* its select.
C4_NoExecutionAfterCancel ==
    [][ \A a \in DOMAIN loop :
          (a \in DOMAIN loop' /\ ctx[a] /\ loop[a] # "exec") => loop'[a] # "exec"
      ]_vars

\* PauseTask has returned for a task whose runTask goroutine has not run yet:
\* its first executeOnce is still to come
C4_Witness ==
    /\ resp.op = "pause" /\ resp.status = 200
    /\ resp.id \in DOMAIN tasks
    /\ ctx[tasks[resp.id]] /\ loop[tasks[resp.id]] = "start"

\* -------------------------------------------------------------------- C5
\* the answer lst of GET /tasks lists the task id with the status st
Listed(lst, id, st) ==
    \E i \in 1..Len(lst) : lst[i].id = id /\ lst[i].status = st

\* no PauseTask is at work on the Task object a
PauseReturned(a) ==
    /\ heap[a].paused
    /\ \A w \in Workers :
          ~(call[w].pc = "pause_save" /\ call[w].id \in DOMAIN tasks
            /\ tasks[call[w].id] = a)

\* the step is the handler of goroutine w answering 200 from the state pc
Accepted(w, pc) == call[w].pc = pc /\ Returns(w) /\ resp'.status = 200

ListedAfterCall ==
    \A w \in Workers :
        /\ Accepted(w, "add_save") => Listed(ListTasks', call[w].id, "running")
        /\ (Accepted(w, "pause") \/ Accepted(w, "pause_save")) =>
              Listed(ListTasks', call[w].id, "paused")

\* (in both statements of C5 the Task objects are those that still exist
\* after the step: the process has not restarted, the object is not garbage)
\* C5 (as claimed): after a successful AddTask the task is listed "running";
\* after PauseTask returns true it is listed "paused", and from then on its
\* runCount never increases.
C5_RunCountFrozenAfterPause ==
    [][ /\ ListedAfterCall
        /\ \A a \in DOMAIN heap :
              (a \in DOMAIN heap' /\ heap'[a] # Freed /\ PauseReturned(a)) =>
                 heap'[a].runCount = heap[a].runCount
      ]_vars

\* C5 (amended): after a successful AddTask the task is listed "running";
\* after PauseTask returns true it is listed "paused"; runCount changes only
\* by one, at the return of an executeOnce of the task's own loop, so that it
\* can still grow after PauseTask has returned while that loop has not
\* terminated, and never changes for a task whose loop has terminated or
\* was never started.
C5_RunCountFollowsLoop ==
    [][ /\ ListedAfterCall
        /\ \A a \in DOMAIN heap :
              (a \in DOMAIN heap' /\ heap'[a] # Freed
               /\ heap'[a].runCount # heap[a].runCount) =>
                 /\ loop[a] = "exec" /\ loop'[a] = "select"
                 /\ heap'[a].runCount = heap[a].runCount + 1
      ]_vars

\* PauseTask has returned true, the task is listed "paused", and an
\* executeOnce of its loop is in flight
C5_Witness ==
    /\ resp.op = "pause" /\ resp.status = 200
    /\ resp.id \in DOMAIN tasks
    /\ Listed(ListTasks, resp.id, "paused")
    /\ loop[tasks[resp.id]] = "exec"
    /\ heap[tasks[resp.id]].runCount = 0

\* -------------------------------------------------------------------- C6
\* the runTask of the Task object a has been started and has not returned
LoopAlive(a) == loop[a] \in {"start", "exec", "select"}

\* C6 (as claimed): whenever the lock is free, for every task of the
\* registry: it is paused iff it has no cancel handle iff no loop that has
\* not yet terminated is bound to it.
C6_PausedNoHandleNoLoop ==
    lock = 0 =>
        \A id \in DOMAIN tasks :
            LET a == tasks[id] IN
            /\ heap[a].paused <=> ~heap[a].cancel
            /\ heap[a].paused <=> ~LoopAlive(a)

\* C6 (amended): whenever the lock is free, for every task of the registry:
\* it is paused iff it has no cancel handle iff no loop whose cancellation
\* has not been signalled is bound to it (a loop that was signalled may
\* still be running).
C6_PausedNoHandleNoUnsignalledLoop ==
    lock = 0 =>
        \A id \in DOMAIN tasks :
            LET a == tasks[id] IN
            /\ heap[a].paused <=> ~heap[a].cancel
            /\ heap[a].paused <=> ~(LoopAlive(a) /\ ~ctx[a])

\* the lock is free, one task runs and another is paused with its loop,
\* signalled, still blocked in the select
C6_Witness ==
    /\ lock = 0
    /\ \E id \in DOMAIN tasks :
          heap[tasks[id]].paused /\ loop[tasks[id]] = "select" /\ ctx[tasks[id]]
    /\ \E id \in DOMAIN tasks :
          ~heap[tasks[id]].paused /\ LoopAlive(tasks[id])

\* -------------------------------------------------------------------- C7
\* the records of the registry a fresh Scheduler restores from the file f
LoadedRecords(f) ==
    IF f.exists /\ f.complete
    THEN LET st == Restore(EmptyRegistry, f.tasks)
         IN  { Persisted(st.heap[st.tasks[id]]) : id \in DOMAIN st.tasks }
    ELSE {}

\* C7 (as claimed): after any sequence of AddTask, PauseTask and RemoveTask
\* calls, loadFromDisk of config.json into a fresh Scheduler yields the set of
\* (id, interval, url, method, description, enabled) of the registry.
C7_RoundTrip == Succeeded => LoadedRecords(fs.cfg) = MemRecords

\* PauseTask has just returned true for the restored task although its
\* snapshot write failed: a restart would restore the task as running
C7_Witness ==
    /\ resp.op = "pause" /\ resp.status = 200 /\ resp.id = OldA
    /\ crashes = 0 /\ faults = 1
    /\ fs.cfg = FileRunning
    /\ heap[tasks[OldA]].paused

\* -------------------------------------------------------------------- C8
\* C8: whatever step is taken, and wherever the process is interrupted or a
\* file-system call fails, config.json either keeps its content or, by the
\* rename of atomicWriteJSON, becomes the complete document being written;
\* it never holds a partial or empty content it did not start with.
C8_TargetOldOrNew ==
    [][ \/ fs'.cfg = fs.cfg
        \/ /\ wr.pc = "rename"
           /\ fs'.cfg = wr.data
           /\ wr.data.exists /\ wr.data.complete
      ]_vars

\* the process was interrupted between the truncating open and the rename of
\* a snapshot write (no call had failed): the temp file is partial, the
\* target is a complete document
C8_Witness ==
    /\ crashes > 0 /\ phase = "boot" /\ faults = 0
    /\ fs.tmp = Partial
    /\ fs.cfg.exists /\ fs.cfg.complete /\ fs.cfg.tasks # <<>>

\* -------------------------------------------------------------------- C9
Distinct(seq) == \A i, j \in 1..Len(seq) : i # j => seq[i] # seq[j]

\* C9: the ids nextID returns in one process run are pairwise distinct, also
\* for concurrent AddTask calls that read the same clock value and draw the
\* same random bytes or find the random source failing; the insertion of an
\* AddTask adds one entry under a fresh key and touches no other entry, and
\* an accepted AddTask returns the id of its own entry.
C9_UniqueIDs ==
    [][ /\ Distinct(issued')
        /\ \A w \in Workers :
              (call[w].pc = "add" /\ call'[w].pc = "add_save") =>
                 /\ call[w].id \notin DOMAIN tasks
                 /\ DOMAIN tasks' = (DOMAIN tasks) \cup {call[w].id}
                 /\ \A k \in DOMAIN tasks : tasks'[k] = tasks[k]
        /\ \A w \in Workers :
              (call[w].pc = "add_save" /\ Returns(w) /\ resp'.status = 200) =>
                 /\ resp'.id = call[w].id
                 /\ resp'.id \in DOMAIN tasks'
                 /\ Cardinality(DOMAIN tasks') = Cardinality(DOMAIN pre.reg) + 1
      ]_vars

\* two AddTask calls are in progress at once, their ids carry the same
\* timestamp and the same random bytes
C9_Witness ==
    /\ call[1].pc = "add_save" /\ call[2].pc = "add"
    /\ Len(call[1].id) = 3 /\ Len(call[2].id) = 3
    /\ call[1].id[1] = call[2].id[1]
    /\ call[1].id[2] = call[2].id[2]

\* ------------------------------------------------------------------- C10
\* the goroutine w is about to run PauseTask on a task that is already paused
PauseOfPaused(w) ==
    /\ call[w].pc = "pause"
    /\ call[w].id \in DOMAIN tasks
    /\ heap[tasks[call[w].id]].paused

\* C10: PauseTask on an already paused task returns true (the handler answers
\* 200) and changes nothing: registry, Task objects, contexts, loops and both
\* files are as before, and no atomicWriteJSON is entered.
C10_PauseIdempotent ==
    [][ \A w \in Workers :
          (PauseOfPaused(w) /\ call'[w] # call[w] /\ crashes' = crashes) =>
             /\ resp' = Resp(w, "pause", 200, call[w].id, "")
             /\ call'[w] = Idle
             /\ UNCHANGED <<tasks, heap, ctx, loop, fs, wr, lock, pre>>
      ]_vars

\* PauseTask has just returned true for the task the first run found paused
\* in config.json; nothing has been written since (the invalid second record
\* of the file is still there)
C10_Witness ==
    /\ resp.op = "pause" /\ resp.status = 200 /\ resp.id = OldA
    /\ crashes = 0
    /\ fs = [cfg |-> FilePaused, tmp |-> NoFile]

\* ------------------------------------------------------------------- C11
\* the step is goroutine w running op ("pause", "remove" or "get") on an id
\* that is not in the registry
NotFoundStep(w, op) ==
    /\ call[w].pc = op
    /\ call[w].id \notin DOMAIN tasks
    /\ call'[w] # call[w]
    /\ crashes' = crashes

\* C11: PauseTask, RemoveTask and the lookup of GET /tasks/:id on an id that
\* is not in the registry answer not-found (404) and return at once: the map,
\* the Task objects, the contexts and loops, both files, the lock and the
\* writer are unchanged, no atomicWriteJSON is entered.
C11_NotFoundNoEffect ==
    [][ \A w \in Workers : \A op \in {"pause", "remove", "get"} :
          NotFoundStep(w, op) =>
             /\ resp' = Resp(w, op, 404, call[w].id, "task not found")
             /\ call'[w] = Idle
             /\ UNCHANGED <<tasks, heap, ctx, loop, fs, wr, lock, pre, acked>>
      ]_vars

\* a GET /tasks/:id for an unknown id has just been answered 404 while a
\* task is registered and running
C11_Witness ==
    /\ resp.op = "get" /\ resp.status = 404 /\ resp.id = UnknownID
    /\ \E id \in DOMAIN tasks : loop[tasks[id]] \in {"exec", "select"}

\* ------------------------------------------------------------------- C12
\* the executions (HTTP calls) of the task id that are in flight: one per
\* runTask goroutine that is inside executeOnce on a Task object with that id
InFlight(id) == { a \in Objs : loop[a] = "exec" /\ heap[a].id = id }

\* C12 (as claimed): in every reachable state, for each task id at most one
\* execution of that task is in flight.
C12_OneExecutionPerTask ==
    \A a \in Objs : loop[a] = "exec" => InFlight(heap[a].id) = {a}

\* config.json listed the id OldA twice, both records enabled: the registry
\* holds one task and two runTask goroutines are inside executeOnce for it
C12_Witness ==
    /\ crashes = 0
    /\ DOMAIN tasks = {OldA}
    /\ Cardinality(InFlight(OldA)) = 2

\* ------------------------------------------------------------------- C13
\* the entry is one the claim calls valid: normalized method GET or POST,
\* interval >= 1, URL not blank
ValidEntry(pt) ==
    /\ ToUpper(TrimSpace(pt.method)) \in {"GET", "POST"}
    /\ pt.interval >= 1
    /\ TrimSpace(pt.url) # ""

ValidAt(f) == { i \in 1..Len(f.tasks) : ValidEntry(f.tasks[i]) }

\* the step is loadFromDisk restoring from a config.json it could open and
\* decode
RestoreStep ==
    /\ phase = "boot" /\ phase' = "serve"
    /\ fs.cfg.exists /\ fs.cfg.complete
    /\ faults' = faults

\* C13: loadFromDisk of a well-formed file puts into the registry exactly the
\* ids of the valid entries, one Task object per valid entry, wherever the
\* invalid entries stand in the file; the record of an id is its last valid
\* entry with the method normalized.
C13_RestoreFiltersPerEntry ==
    [][ RestoreStep =>
          LET f == fs.cfg IN
          /\ DOMAIN tasks' = { f.tasks[i].id : i \in ValidAt(f) }
          /\ Len(heap') = Cardinality(ValidAt(f))
          /\ \A id \in DOMAIN tasks' :
                \E i \in ValidAt(f) :
                   /\ f.tasks[i].id = id
                   /\ \A j \in ValidAt(f) : f.tasks[j].id = id => j <= i
                   /\ Persisted(heap'[tasks'[id]]) =
                         [f.tasks[i] EXCEPT
                            !.method = ToUpper(TrimSpace(f.tasks[i].method))]
      ]_vars

\* the file whose first entry has a blank URL and whose second entry is
\* valid has been restored: the second entry alone is in the registry
C13_Witness ==
    /\ crashes = 0 /\ calls = 0 /\ phase = "serve"
    /\ fs.cfg = FileBlank
    /\ DOMAIN tasks = {OldB}
    /\ heap[tasks[OldB]].method = "GET"

\* ------------------------------------------------------------------- C14
\* the runTask goroutines that exist after the step for the task id
LoopsOf(id) ==
    { b \in 1..Len(loop') : loop'[b] # NoLoop /\ heap'[b].id = id }

\* C14 (as claimed): startup restore leaves every restored task whose
\* enabled flag is true with exactly one loop, its own, status running and a
\* cancel handle, and every restored task whose enabled flag is false with no
\* loop, status paused and no cancel handle; a Task object restored without
\* a loop never gets one.
C14_OneLoopPerEnabledTask ==
    [][ /\ RestoreStep =>
              \A id \in DOMAIN tasks' :
                 LET a == tasks'[id] IN
                 IF heap'[a].paused
                 THEN /\ LoopsOf(id) = {}
                      /\ ~heap'[a].cancel
                      /\ Listed(ListTasks', id, "paused")
                 ELSE /\ LoopsOf(id) = {a}
                      /\ loop'[a] = NewLoop
                      /\ heap'[a].cancel
                      /\ Listed(ListTasks', id, "running")
        /\ \A a \in DOMAIN loop :
              (a \in DOMAIN loop' /\ loop[a] = NoLoop /\ heap[a].paused) =>
                 loop'[a] = NoLoop
      ]_vars

\* config.json listed OldA enabled and then again disabled: the registry
\* holds OldA as paused while the loop of the first record issues a call
C14_Witness ==
    /\ crashes = 0
    /\ DOMAIN tasks = {OldA}
    /\ heap[tasks[OldA]].paused /\ ~heap[tasks[OldA]].cancel
    /\ \E b \in Objs : b # tasks[OldA] /\ heap[b].id = OldA /\ loop[b] = "exec"

\* ------------------------------------------------------------------- C15
\* the errors of an add request that are validation failures: the binding
\* of the body, and the two checks of AddTask
ValidationErrors ==
    {"binding", "method must be GET or POST", "interval_seconds must be >= 1"}

\* C15 (as claimed): an add request that fails validation is answered 400
\* and changes nothing (registry, Task objects, loops, files, no write is
\* entered); an add request is answered 500 only for a failed snapshot
\* write.
C15_ValidationIs400 ==
    [][ /\ (resp'.op = "add" /\ resp'.error \in ValidationErrors) =>
              /\ resp'.status = 400
              /\ UNCHANGED <<tasks, heap, ctx, loop, fs, wr, lock, idSeq>>
        /\ (resp'.op = "add" /\ resp'.status = 500) =>
              resp'.error = "write failed"
      ]_vars

\* an add request with the method DELETE has just been answered 500 while a
\* task is registered
C15_Witness ==
    /\ resp.op = "add" /\ resp.status = 500
    /\ resp.error = "method must be GET or POST"
    /\ DOMAIN tasks # {}

\* ------------------------------------------------------------------- C16
\* C16 (as claimed): once PauseTask(id) has returned true and until a
\* RemoveTask(id) returns true, in this process run and after restarts, the
\* task is paused whenever it is in the registry (so never listed as
\* running) and no execution of it starts (one in flight may finish).
C16_NoResume ==
    [][ \A id \in acked :
          /\ id \in DOMAIN tasks' =>
                /\ heap'[tasks'[id]].paused
                /\ ~Listed(ListTasks', id, "running")
          /\ \A a \in DOMAIN loop' :
                (loop'[a] = "exec" /\ heap'[a].id = id) =>
                   (a \in DOMAIN loop /\ loop[a] = "exec")
      ]_vars

\* PauseTask returned true for the restored task in the first run; after a
\* restart the task is back in the registry, not paused, with a loop
C16_Witness ==
    /\ crashes = 1 /\ phase = "serve"
    /\ OldA \in acked
    /\ OldA \in DOMAIN tasks
    /\ ~heap[tasks[OldA]].paused
    /\ Listed(ListTasks, OldA, "running")

\* ------------------------------------------------------------------- C17
\* the runTask of object a has been signalled to stop and has not returned
Cancelled(a) == a \in DOMAIN loop /\ ctx[a] /\ LoopAlive(a)

\* the runTask of object a has returned (or the process that ran it is gone)
Terminated(a) == a \notin DOMAIN loop \/ loop[a] = "stopped"

\* C17: under fair scheduling of the loop, a loop whose cancellation has
\* been signalled terminates in the end (after the call in flight, if any,
\* has returned), and a terminated loop stays terminated: it never executes
\* again.
C17_LoopTerminates ==
    /\ \A a \in 1..MaxObjs : Cancelled(a) ~> Terminated(a)
    /\ [][ \A a \in DOMAIN loop :
             (loop[a] = "stopped" /\ a \in DOMAIN loop') => loop'[a] = "stopped"
         ]_vars

\* the loop of a paused task that is still registered has terminated, after
\* an execution that was counted
C17_Witness ==
    \E id \in DOMAIN tasks :
        /\ heap[tasks[id]].paused /\ ctx[tasks[id]]
        /\ loop[tasks[id]] = "stopped"
        /\ heap[tasks[id]].runCount = 1

\* ------------------------------------------------------------------- C18
\* the ids AddTask has inserted and not yet committed: its save has not
\* returned, the insert may still be rolled back
Uncommitted == { call[w].id : w \in { v \in Workers : call[v].pc = "add_save" } }

\* the ids of the tasks an answer shows
Shown(r) == { r.body[i].id : i \in 1..Len(r.body) }

\* the goroutines between the memory update and the return of a mutation
Mutators ==
    { w \in Workers : call[w].pc \in {"add_save", "pause_save", "remove_save"} }

\* C18: mutations are atomic for readers and for each other.  No answer of
\* GET /tasks and no lookup of GET /tasks/:id shows a task whose AddTask has
\* not returned, so none shows an insert that is rolled back afterwards; at
\* most one mutation is between its memory update and its return, it is the
\* holder of the lock and the only user of atomicWriteJSON; and whenever
\* config.json is replaced, the new content is the snapshot of the registry
\* as it is at that moment, never that of an older state.
C18_MutationsAtomic ==
    [][ /\ resp'.op = "list" => Shown(resp') \cap Uncommitted = {}
        /\ \A w \in Workers :
              (call[w].pc = "get" /\ call'[w].pc = "get_read") =>
                  call'[w].id \notin Uncommitted
        /\ Mutators \subseteq {lock}
        /\ (phase = "serve" /\ wr.pc # "idle") => lock \in Mutators
        /\ fs'.cfg # fs.cfg => fs'.cfg = Snapshot(tasks, heap, port)
      ]_vars

\* a GET for the id of an insert waits for the lock while the save of that
\* AddTask has failed and the rollback is still to come
C18_Witness ==
    \E w, v \in Workers :
        /\ call[w].pc = "add_save" /\ wr.pc = "done" /\ wr.err
        /\ call[v].pc = "get" /\ call[v].id = call[w].id

\* ------------------------------------------------------------------- C19
\* the loop of object a runs and its context has not been cancelled
Uncancelled(a) == LoopAlive(a) /\ ~ctx[a]

\* the registry holds object a, with the handle that cancels its loop
Stoppable(a) == \E id \in DOMAIN tasks : tasks[id] = a /\ heap[a].cancel

\* C19 (as claimed): in every reachable state, every execution loop that has
\* not been cancelled belongs to a task of the registry that holds the cancel
\* handle of that loop, so PauseTask or RemoveTask can stop it.
C19_NoOrphanedLoops ==
    \A a \in Objs : Uncancelled(a) => Stoppable(a)

\* config.json listed the id OldA twice; RemoveTask has removed OldA and
\* the registry is empty, and a loop that was never cancelled executes
C19_Witness ==
    /\ crashes = 0
    /\ tasks = <<>>
    /\ lock = 0
    /\ \E a \in Objs : loop[a] = "exec" /\ ~ctx[a] /\ heap[a].id = OldA

\* ------------------------------------------------------------------- C20
\* the step is the read of the paused flags by the handler goroutine w: the
\* loop of GET /tasks, or line 366 of GET /tasks/:id
ReadsPaused(w) ==
    /\ call[w].pc \in {"list_read", "get_read"}
    /\ call'[w] = Idle

\* the step writes the paused flag or the cancel handle of a Task object
WritesFlags ==
    \E a \in Objs : a \in Objs' /\ heap'[a].id = heap[a].id /\
        (heap'[a].paused # heap[a].paused \/ heap'[a].cancel # heap[a].cancel)

\* the goroutines that have a Task in hand and will read its paused flag
\* without the lock
UnlockedReaders(id) ==
    { w \in Workers : call[w].pc = "get_read" /\ call[w].id = id }

\* C20 (as claimed): while the server runs, every read of a paused flag is
\* made by a goroutine that holds the lock in its shared form, every write of
\* a paused flag or a cancel handle is made with the lock held exclusively,
\* and no PauseTask writes the flag of a task while a get is about to read it.
C20_FlagsUnderLock ==
    [][ (phase = "serve" /\ phase' = "serve") =>
          /\ \A w \in Workers : ReadsPaused(w) => w \in Readers
          /\ WritesFlags => (lock # 0 \/ lock' # 0)
          /\ \A w \in Workers :
                (call[w].pc = "pause" /\ call'[w].pc = "pause_save") =>
                    UnlockedReaders(call[w].id) = {}
      ]_vars

\* GET /tasks/:id has answered "running" for a task that is paused, after
\* the PauseTask that paused it has returned
C20_Witness ==
    /\ resp.op = "get" /\ resp.status = 200
    /\ resp.body[1].status = "running"
    /\ lock = 0
    /\ resp.id \in DOMAIN tasks
    /\ heap[tasks[resp.id]].paused

====
